---- MODULE Spec2Model ----
(***************************************************************************)
(* Timelock (src/timelock/__init__.py): the sequential-hash puzzle engine  *)
(* TimelockChain, the daisy-chained set Timelock, and its JSON codec.      *)
(*                                                                         *)
(* Byte strings are values [len, x]: len is the length in bytes and x is   *)
(* the content as a XOR-sum of atoms (a set of atoms; XOR is the symmetric *)
(* difference, the all-zero string is the empty set).  An atom is a fresh  *)
(* seed <<"seed", k>> or the output <<f, input>> of a hash or encoding f,  *)
(* so that hashes and encodings are injective and collide with nothing,   *)
(* and Python's == on bytes is equality of values.                         *)
(* Wall-clock time is not modelled by numbers: a budget t is "expired"     *)
(* (t <= 0), "finite" (the clock may run out at any poll) or "unlimited".  *)
(***************************************************************************)
EXTENDS Integers, Sequences, FiniteSets, TLC

\* ------------------------------------------------------------------ bounds
MaxChains == 3
MaxN == 2

\* the longest chain used on its own: long enough for a batch to double and
\* then be capped by the distance to the target
MaxChainN == 4

\* ------------------------------------------------------------- byte values
None == [len |-> 0 - 1, x |-> {}]

Bytes(l, atoms) == [len |-> l, x |-> atoms]

Seed(k) == Bytes(32, {<<"seed", k>>})

\* seeds are opaque: chain k takes one of the first k seeds, which gives
\* every pattern of equal and distinct seeds once
Seeds == {Seed(k) : k \in 1..MaxChains}

SeedChoices(num_chains) ==
    {ivs \in [1..num_chains -> Seeds] :
        \A k \in 1..num_chains :
            \E j \in 1..k : ivs[k] = Seed(j) /\ (j = 1 \/ \E h \in 1..(k - 1) : ivs[h] = Seed(j - 1))}

\* the single argument of a value that is one atom <<f, arg>>
Arg(v) == (CHOOSE a \in v.x : TRUE)[2]

IsA(v, f) == Cardinality(v.x) = 1 /\ \A a \in v.x : a[1] = f

\* hashlib.sha256(b).digest()
sha256(b) == Bytes(32, {<<"sha256", b>>})

\* hashlib.new('ripemd160', b).digest()
ripemd160(b) == Bytes(20, {<<"ripemd160", b>>})

\* one sequential hash step of the kernel
KernelStep(state) == Bytes(32, {<<"step", state>>})

RECURSIVE KernelRun(_, _)
KernelRun(state, m) == IF m = 0 THEN state ELSE KernelRun(KernelStep(state), m - 1)

XorLenOk(a, b) == a.len = b.len

\* mutant: bytewise OR instead of XOR
xor_bytes_or(a, b) == Bytes(a.len, a.x \cup b.x)

xor_bytes(a, b) == Bytes(a.len, (a.x \ b.x) \cup (b.x \ a.x))

\* ------------------------------------------------------------ TimelockChain
Algorithm == "sha256"

NewChain(n, iv, encrypted_iv) ==
    [algorithm |-> Algorithm, n |-> n, iv |-> iv, encrypted_iv |-> encrypted_iv,
     i |-> 0, midstate |-> iv,
     seckey |-> None, secret |-> None, hashed_secret |-> None]

\* CBitcoinSecret.from_secret_bytes(midstate): the key object, 32 bytes and
\* the compressed-key flag
midstate_to_seckey(midstate) == Bytes(33, {<<"seckey", midstate>>})

\* seckey.pub: the 33-byte public key of a key object
Pub(seckey) == Bytes(33, {<<"pub", Arg(seckey)>>})

HasPub(v) == IsA(v, "seckey")

seckey_to_secret(seckey) == sha256(Pub(seckey))

secret_to_hashed_secret(secret) == ripemd160(secret)

Out(c, ret) == [c |-> c, ret |-> ret]

encrypt_iv(c, prev_secret) ==
    IF c.iv = None THEN Out(c, "ValueError")
    ELSE IF ~XorLenOk(c.iv, prev_secret) THEN Out(c, "ValueError")
    ELSE Out([c EXCEPT !.encrypted_iv = xor_bytes(c.iv, prev_secret)], "None")

\* mutant: the encrypted iv is taken as the iv, without the XOR
decrypt_iv_no_xor(c, prev_secret) ==
    IF c.encrypted_iv = None THEN Out(c, "ValueError")
    ELSE IF ~XorLenOk(c.encrypted_iv, prev_secret) THEN Out(c, "ValueError")
    ELSE LET iv == c.encrypted_iv
         IN  Out([c EXCEPT !.iv = iv, !.midstate = iv, !.i = 0], "None")

decrypt_iv(c, prev_secret) ==
    IF c.encrypted_iv = None THEN Out(c, "ValueError")
    ELSE IF ~XorLenOk(c.encrypted_iv, prev_secret) THEN Out(c, "ValueError")
    ELSE LET iv == xor_bytes(c.encrypted_iv, prev_secret)
         IN  Out([c EXCEPT !.iv = iv, !.midstate = iv, !.i = 0], "None")

\* mutant: the candidate is stored before the commitment is compared
ChainAddSecretStoresFirst(c, secret) ==
    IF c.hashed_secret = None THEN Out(c, "ValueError")
    ELSE IF c.hashed_secret = secret_to_hashed_secret(secret)
         THEN Out([c EXCEPT !.secret = secret], "True")
         ELSE Out([c EXCEPT !.secret = secret], "False")

ChainAddSecret(c, secret) ==
    IF c.hashed_secret = None THEN Out(c, "ValueError")
    ELSE IF c.hashed_secret = secret_to_hashed_secret(secret)
         THEN Out([c EXCEPT !.secret = secret], "True")
         ELSE Out(c, "False")

add_pubkey_secret(c, pubkey_secret) == ChainAddSecret(c, sha256(pubkey_secret))

add_seckey(c, seckey) == add_pubkey_secret(c, Pub(seckey))

\* mutant: the batch is not capped by the distance to the target
MinTakesLarger(a, b) == IF a < b THEN b ELSE a

Min(a, b) == IF a < b THEN a ELSE b

\* the stepping loop of TimelockChain.unlock: every way the clock lets it
\* run.  max_m doubles after a kernel call that took less than 25 ms and
\* stays otherwise; the loop ends when i reaches j or a clock poll fails.
\* An outcome is the chain, the number of hash steps made, and the kernel
\* invocations in order, each with i before it, its m and its max_m.
RECURSIVE UnlockLoop(_, _, _, _, _)
UnlockLoop(c, j, max_m, t, steps) ==
    IF ~(c.i < j) \/ t = "expired"
    THEN {[c |-> c, steps |-> steps, batches |-> <<>>]}
    ELSE LET m  == Min(j - c.i, max_m)
             c2 == [c EXCEPT !.midstate = KernelRun(c.midstate, m), !.i = c.i + m]
             b  == [i |-> c.i, m |-> m, max_m |-> max_m]
         IN  (IF t = "finite" THEN {[c |-> c, steps |-> steps, batches |-> <<>>]} ELSE {})
             \cup {[o EXCEPT !.batches = <<b>> \o o.batches] :
                       o \in UnlockLoop(c2, j, max_m * 2, t, steps + m)
                             \cup UnlockLoop(c2, j, max_m, t, steps + m)}

\* mutant: at i = n a commitment that is already there is kept
UnlockFinishKeepsCommitment(c, steps) ==
    IF ~(c.i <= c.n) THEN [c |-> c, ret |-> "AssertionError", steps |-> steps]
    ELSE LET seckey == midstate_to_seckey(c.midstate)
             secret == seckey_to_secret(seckey)
             d == IF c.i = c.n
                  THEN [c EXCEPT !.seckey = seckey, !.secret = secret,
                                 !.hashed_secret = IF c.hashed_secret = None
                                                   THEN secret_to_hashed_secret(secret)
                                                   ELSE c.hashed_secret]
                  ELSE c
         IN  [c |-> d, ret |-> IF d.secret # None THEN "True" ELSE "False",
              steps |-> steps]

\* the end of TimelockChain.unlock: the assertion, the derivation of the
\* secret at i = n, and the result
UnlockFinish(c, steps) ==
    IF ~(c.i <= c.n) THEN [c |-> c, ret |-> "AssertionError", steps |-> steps]
    ELSE LET seckey == midstate_to_seckey(c.midstate)
             secret == seckey_to_secret(seckey)
             d == IF c.i = c.n
                  THEN [c EXCEPT !.seckey = seckey, !.secret = secret,
                                 !.hashed_secret = secret_to_hashed_secret(secret)]
                  ELSE c
         IN  [c |-> d, ret |-> IF d.secret # None THEN "True" ELSE "False",
              steps |-> steps]

\* mutant: midstate is reset to iv on every call, not only at i = 0
ChainUnlockRestarts(c, t, j) ==
    LET c1 == [c EXCEPT !.midstate = c.iv]
    IN  IF c1.midstate = None
        THEN {[c |-> c1, ret |-> "ValueError", steps |-> 0, batches |-> <<>>]}
        ELSE IF j > c1.n
        THEN {[c |-> c1, ret |-> "ValueError", steps |-> 0, batches |-> <<>>]}
        ELSE {LET f == UnlockFinish(o.c, o.steps)
              IN  [c |-> f.c, ret |-> f.ret, steps |-> f.steps, batches |-> o.batches]
              : o \in UnlockLoop(c1, j, 1, t, 0)}

\* TimelockChain.unlock(t, j): the set of its possible outcomes
ChainUnlock(c, t, j) ==
    LET c1 == IF c.i = 0 THEN [c EXCEPT !.midstate = c.iv] ELSE c
    IN  IF c1.midstate = None
        THEN {[c |-> c1, ret |-> "ValueError", steps |-> 0, batches |-> <<>>]}
        ELSE IF j > c1.n
        THEN {[c |-> c1, ret |-> "ValueError", steps |-> 0, batches |-> <<>>]}
        ELSE {LET f == UnlockFinish(o.c, o.steps)
              IN  [c |-> f.c, ret |-> f.ret, steps |-> f.steps, batches |-> o.batches]
              : o \in UnlockLoop(c1, j, 1, t, 0)}

\* ----------------------------------------------------------------- Timelock
\* Chain k of the source (0-based) is element k + 1 of the sequence.
NewTimelock(num_chains, n, ivs) ==
    [k \in 1..num_chains |-> NewChain(n, ivs[k], None)]

TimelockSecret(chains) == chains[Len(chains)].secret

\* the first loop of make_locked from chain k on: the source set as the
\* loop leaves it, and whether it raised
RECURSIVE MakeLockedCheck(_, _)
MakeLockedCheck(chains, k) ==
    IF k > Len(chains) THEN [chains |-> chains, ret |-> "None"]
    ELSE LET u  == CHOOSE o \in ChainUnlock(chains[k], "expired", chains[k].n) : TRUE
             s1 == [chains EXCEPT ![k] = u.c]
         IN  IF u.ret # "True" THEN [chains |-> s1, ret |-> "ValueError"]
             ELSE IF k = 1 THEN MakeLockedCheck(s1, k + 1)
             ELSE LET e == encrypt_iv(s1[k], s1[k - 1].secret)
                  IN  IF e.ret # "None" THEN [chains |-> s1, ret |-> e.ret]
                      ELSE MakeLockedCheck([s1 EXCEPT ![k] = e.c], k + 1)

\* mutant: the plaintext iv is passed on to the locked chain
LockedChainKeepsIv(unlocked_chain) ==
    [NewChain(unlocked_chain.n, unlocked_chain.iv, unlocked_chain.encrypted_iv)
        EXCEPT !.algorithm = unlocked_chain.algorithm,
               !.hashed_secret = unlocked_chain.hashed_secret]

LockedChain(unlocked_chain) ==
    [NewChain(unlocked_chain.n, None, unlocked_chain.encrypted_iv)
        EXCEPT !.algorithm = unlocked_chain.algorithm,
               !.hashed_secret = unlocked_chain.hashed_secret]

\* mutant: the plaintext iv of the first chain is not copied to the new set
make_locked_no_first_iv(chains) ==
    LET chk == MakeLockedCheck(chains, 1)
        new == [k \in 1..Len(chains) |-> LockedChain(chk.chains[k])]
    IN  IF chk.ret # "None"
        THEN [chains |-> chk.chains, ret |-> chk.ret, locked |-> <<>>]
        ELSE [chains |-> chk.chains, ret |-> "locked", locked |-> new]

\* Timelock.make_locked(): the source set afterwards, the result, and the
\* new set (empty when it raised)
make_locked(chains) ==
    LET chk == MakeLockedCheck(chains, 1)
        new == [k \in 1..Len(chains) |-> LockedChain(chk.chains[k])]
    IN  IF chk.ret # "None"
        THEN [chains |-> chk.chains, ret |-> chk.ret, locked |-> <<>>]
        ELSE [chains |-> chk.chains, ret |-> "locked",
              locked |-> [new EXCEPT ![1].iv = chk.chains[1].iv]]

\* Timelock.add_secret(secret) from chain k on
RECURSIVE AddSecretFrom(_, _, _)
AddSecretFrom(chains, secret, k) ==
    IF k > Len(chains) THEN [chains |-> chains, ret |-> "False"]
    ELSE IF chains[k].hashed_secret = None
    THEN [chains |-> chains, ret |-> "ValueError"]
    ELSE LET a == ChainAddSecret(chains[k], secret)
             b == add_pubkey_secret(chains[k], secret)
         IN  IF a.ret = "True" THEN [chains |-> [chains EXCEPT ![k] = a.c], ret |-> "True"]
             ELSE IF b.ret = "True" THEN [chains |-> [chains EXCEPT ![k] = b.c], ret |-> "True"]
             ELSE IF HasPub(secret)
                  \* chain.add_seckey_secret is not a method of TimelockChain
                  THEN [chains |-> chains, ret |-> "AttributeError"]
                  ELSE AddSecretFrom(chains, secret, k + 1)

TimelockAddSecret(chains, secret) == AddSecretFrom(chains, secret, 1)

\* mutant: the flag is read the wrong way round
EnumChainsSwapped(chains, from_first_chain) ==
    [p \in 1..Len(chains) |-> IF ~from_first_chain THEN p ELSE Len(chains) + 1 - p]

\* mutant: the flag is ignored, every pass goes from the first chain on
EnumChainsForwardOnly(chains, from_first_chain) ==
    [p \in 1..Len(chains) |-> p]

\* the order in which one pass of Timelock.unlock visits the chains
EnumChains(chains, from_first_chain) ==
    [p \in 1..Len(chains) |-> IF from_first_chain THEN p ELSE Len(chains) + 1 - p]

\* mutant: t is not set to -1 after a full solve
PassStepKeepsBudget(chains, k, t) ==
    {IF o.ret \in {"ValueError", "AssertionError"}
     THEN [kind |-> "raise", chains |-> [chains EXCEPT ![k] = o.c], ret |-> o.ret,
           t |-> t, steps |-> o.steps]
     ELSE [kind |-> "break", chains |-> [chains EXCEPT ![k] = o.c], ret |-> o.ret,
           t |-> IF o.ret = "True" THEN t ELSE "expired", steps |-> o.steps]
     : o \in ChainUnlock(chains[k], t, chains[k].n)}

\* mutant: t is set to -1 before chain.unlock(t) is called
PassStepBudgetGone(chains, k, t) ==
    {IF o.ret \in {"ValueError", "AssertionError"}
     THEN [kind |-> "raise", chains |-> [chains EXCEPT ![k] = o.c], ret |-> o.ret,
           t |-> t, steps |-> o.steps]
     ELSE [kind |-> "break", chains |-> [chains EXCEPT ![k] = o.c], ret |-> o.ret,
           t |-> "expired", steps |-> o.steps]
     : o \in ChainUnlock(chains[k], "expired", chains[k].n)}

\* chain.unlock(t) on chain k inside a pass, then the break.  A full solve
\* sets t = -1.  A call that returns False ended on a failed poll of its own
\* clock, which started no earlier than the set's: the set's next poll fails.
PassStep(chains, k, t) ==
    {IF o.ret \in {"ValueError", "AssertionError"}
     THEN [kind |-> "raise", chains |-> [chains EXCEPT ![k] = o.c], ret |-> o.ret,
           t |-> t, steps |-> o.steps]
     ELSE [kind |-> "break", chains |-> [chains EXCEPT ![k] = o.c], ret |-> o.ret,
           t |-> "expired", steps |-> o.steps]
     : o \in ChainUnlock(chains[k], t, chains[k].n)}

\* the for loop of one pass of Timelock.unlock from position p of the order
RECURSIVE Pass(_, _, _, _)
Pass(chains, order, p, t) ==
    IF p > Len(order)
    THEN {[kind |-> "none", chains |-> chains, ret |-> "None", t |-> t, steps |-> 0]}
    ELSE LET k == order[p]
             chain == chains[k]
         IN  IF chain.secret # None THEN Pass(chains, order, p + 1, t)
             ELSE IF chain.iv = None
             THEN IF ~(k - 1 > 0)
                  THEN {[kind |-> "raise", chains |-> chains, ret |-> "AssertionError",
                         t |-> t, steps |-> 0]}
                  ELSE IF chains[k - 1].secret # None
                  THEN LET d == decrypt_iv(chain, chains[k - 1].secret)
                       IN  IF d.ret # "None"
                           THEN {[kind |-> "raise", chains |-> chains, ret |-> d.ret,
                                  t |-> t, steps |-> 0]}
                           ELSE PassStep([chains EXCEPT ![k] = d.c], k, t)
                  ELSE Pass(chains, order, p + 1, t)
             ELSE PassStep(chains, k, t)

Bool(b) == IF b THEN "True" ELSE "False"

\* the while loop of Timelock.unlock.  A pass that steps no chain changes
\* nothing, so the loop polls again: a finite budget runs out and the call
\* returns, an unlimited one never returns ("NoReturn").
RECURSIVE TimelockUnlockLoop(_, _, _, _)
TimelockUnlockLoop(chains, t, from_first_chain, steps) ==
    LET return == [chains |-> chains, ret |-> Bool(TimelockSecret(chains) # None),
                   steps |-> steps]
    IN  IF TimelockSecret(chains) # None \/ t = "expired" THEN {return}
        ELSE (IF t = "finite" THEN {return} ELSE {})
             \cup UNION {
                 IF r.kind = "raise"
                 THEN {[chains |-> r.chains, ret |-> r.ret, steps |-> steps + r.steps]}
                 ELSE IF r.kind = "none"
                 THEN {IF t = "finite" THEN return
                       ELSE [chains |-> chains, ret |-> "NoReturn", steps |-> steps]}
                 ELSE TimelockUnlockLoop(r.chains, r.t, from_first_chain, steps + r.steps)
                 : r \in Pass(chains, EnumChains(chains, from_first_chain), 1, t)}

\* Timelock.unlock(t, from_first_chain): the set of its possible outcomes
TimelockUnlock(chains, t, from_first_chain) ==
    TimelockUnlockLoop(chains, t, from_first_chain, 0)

\* --------------------------------------------------------------- JSON codec
\* bitcoin.core.b2x: the hex string of a byte string
b2x(b) == Bytes(2 * b.len, {<<"hex", b>>})

\* bitcoin.core.x: the byte string of a hex string
x(h) == Arg(h)

nb2x(b) == IF b = None THEN b ELSE b2x(b)

nx(h) == IF h = None THEN None ELSE x(h)

\* str(CBitcoinAddress.from_bytes(h, 0)): Base58Check of version byte 0 and h
AddressStr(h) == Bytes(34, {<<"base58check0", h>>})

\* CBitcoinAddress(s): the address object, a bytes value equal to the hash
AddressFromStr(s) == Arg(s)

\* str(seckey): the Base58Check text of a key object
SeckeyStr(seckey) == Bytes(52, {<<"base58check128", seckey>>})

\* CBitcoinSecret(s)
SeckeyFromStr(s) == Arg(s)

VERSION == 1

ChainToJson(chain) ==
    [algorithm |-> chain.algorithm,
     iv |-> nb2x(chain.iv),
     encrypted_iv |-> nb2x(chain.encrypted_iv),
     n |-> chain.n,
     i |-> chain.i,
     midstate |-> nb2x(chain.midstate),
     hashed_secret |-> IF chain.hashed_secret # None
                       THEN AddressStr(chain.hashed_secret) ELSE None,
     seckey |-> IF chain.seckey # None THEN SeckeyStr(chain.seckey) ELSE None,
     secret |-> nb2x(chain.secret)]

to_json(chains) ==
    [version |-> VERSION,
     chains |-> [k \in 1..Len(chains) |-> ChainToJson(chains[k])]]

\* mutant: midstate is left as the constructor set it
ChainFromJsonNoMidstate(json_chain) ==
    [NewChain(json_chain.n, nx(json_chain.iv), nx(json_chain.encrypted_iv))
        EXCEPT !.algorithm = json_chain.algorithm,
               !.i = json_chain.i,
               !.hashed_secret = IF json_chain.hashed_secret # None
                                 THEN AddressFromStr(json_chain.hashed_secret)
                                 ELSE None,
               !.secret = nx(json_chain.secret),
               !.seckey = IF json_chain.seckey # None
                          THEN SeckeyFromStr(json_chain.seckey) ELSE None]

ChainFromJson(json_chain) ==
    [NewChain(json_chain.n, nx(json_chain.iv), nx(json_chain.encrypted_iv))
        EXCEPT !.algorithm = json_chain.algorithm,
               !.i = json_chain.i,
               !.midstate = nx(json_chain.midstate),
               !.hashed_secret = IF json_chain.hashed_secret # None
                                 THEN AddressFromStr(json_chain.hashed_secret)
                                 ELSE None,
               !.secret = nx(json_chain.secret),
               !.seckey = IF json_chain.seckey # None
                          THEN SeckeyFromStr(json_chain.seckey) ELSE None]

\* Timelock.from_json(obj): the chains, or nothing on a bad version
from_json(obj) ==
    IF obj.version # VERSION THEN <<>>
    ELSE [k \in 1..Len(obj.chains) |-> ChainFromJson(obj.chains[k])]

\* ---------------------------------------------------------------- state
\* cs    the chain set in use (the creator's, then the locked one)
\* orig  the solved set the current locked set was made from (<<>> before)
\* json  the record written by to_json and not yet read back (NoJson if none)
\* res   the call that returned last, until the caller takes its result
\* inj   the chains whose true secret add_secret was given, and accepted
\* phase "run", or "compare" once cs was copied to pb and pf, which are
\*       then unlocked with unlimited budget until their secret is known,
\*       pb backward-first and after it pf forward-first; nb, nf count the
\*       calls and sb, sf the hash steps
\* ch    one TimelockChain used on its own, and enc the iv and prev_secret
\*       of its last successful encrypt_iv (NoEnc if none)
\* run   the kernel invocations of the last unlock call made on ch
VARIABLES cs, orig, json, res, inj, phase, pb, pf, nb, nf, sb, sf, ch, enc, run

vars == <<cs, orig, json, res, inj, phase, pb, pf, nb, nf, sb, sf, ch, enc, run>>

Compare == <<pb, pf, nb, nf, sb, sf>>

SetVars == <<cs, orig, json, inj, phase, pb, pf, nb, nf, sb, sf>>

ChainVars == <<ch, enc, run>>

NoJson == [version |-> 0, chains |-> <<>>]

NoEnc == [iv |-> None, prev_secret |-> None]

Budgets == {"expired", "finite", "unlimited"}

\* a call: its name, budget, policy, byte-string argument, the chain's i
\* when it was made, the target j, and its result
Res(op, t, ff, arg, i, j, ret) ==
    [op |-> op, t |-> t, ff |-> ff, arg |-> arg, i |-> i, j |-> j, ret |-> ret]

\* no call is waiting for its result to be taken
Idle == Res("idle", "expired", FALSE, None, 0, 0, "None")

\* the caller takes the result of the last call
Return ==
    /\ res # Idle
    /\ res' = Idle
    /\ UNCHANGED <<SetVars, ChainVars>>

\* ------------------------------------------------------ the chain-set model
Init ==
    /\ \E num_chains \in 1..MaxChains, n \in 1..MaxN :
         \E ivs \in SeedChoices(num_chains) : cs = NewTimelock(num_chains, n, ivs)
    /\ orig = <<>>
    /\ json = NoJson
    /\ res = Idle
    /\ inj = {}
    /\ phase = "run"
    /\ pb = <<>> /\ pf = <<>>
    /\ nb = 0 /\ nf = 0 /\ sb = 0 /\ sf = 0
    /\ ch = NewChain(0, None, None)
    /\ enc = NoEnc
    /\ run = <<>>

Ready == phase = "run" /\ json = NoJson /\ res = Idle

Unlock ==
    /\ Ready
    /\ \E t \in Budgets, from_first_chain \in BOOLEAN :
         \E o \in TimelockUnlock(cs, t, from_first_chain) :
            /\ cs' = o.chains
            /\ res' = Res("unlock", t, from_first_chain, None, 0, 0, o.ret)
    /\ UNCHANGED <<orig, json, inj, phase, Compare, ChainVars>>

MakeLocked ==
    /\ Ready
    /\ LET r == make_locked(cs)
       IN  /\ cs' = IF r.ret = "locked" THEN r.locked ELSE r.chains
           /\ orig' = IF r.ret = "locked" THEN r.chains ELSE orig
           /\ inj' = IF r.ret = "locked" THEN {} ELSE inj
           /\ res' = Res("make_locked", "expired", FALSE, None, 0, 0, r.ret)
    /\ UNCHANGED <<json, phase, Compare, ChainVars>>

\* what a caller may offer to add_secret: the secrets, public keys and key
\* objects of the solved chains, and a wrong guess of each kind
Candidates ==
    {Seed(1), midstate_to_seckey(Seed(1)), Pub(midstate_to_seckey(Seed(1)))}
    \cup {orig[k].secret : k \in 1..Len(orig)}
    \cup UNION {{orig[k].seckey, Pub(orig[k].seckey)} :
                 k \in {j \in 1..Len(orig) : orig[j].seckey # None}}

AddSecret ==
    /\ Ready
    /\ \E secret \in Candidates :
         LET r == TimelockAddSecret(cs, secret)
         IN  /\ cs' = r.chains
             /\ res' = Res("add_secret", "expired", FALSE, secret, 0, 0, r.ret)
             /\ inj' = IF r.ret = "True"
                       THEN inj \cup {k \in 1..Len(orig) : orig[k].secret = secret}
                       ELSE inj
    /\ UNCHANGED <<orig, json, phase, Compare, ChainVars>>

Save ==
    /\ Ready
    /\ json' = to_json(cs)
    /\ UNCHANGED <<cs, orig, res, inj, phase, Compare, ChainVars>>

Load ==
    /\ phase = "run" /\ json # NoJson
    /\ cs' = from_json(json)
    /\ json' = NoJson
    /\ UNCHANGED <<orig, res, inj, phase, Compare, ChainVars>>

Fork ==
    /\ Ready
    /\ phase' = "compare"
    /\ pb' = cs /\ pf' = cs
    /\ UNCHANGED <<cs, orig, json, res, inj, nb, nf, sb, sf, ChainVars>>

RunBackward ==
    /\ phase = "compare" /\ res = Idle
    /\ TimelockSecret(pb) = None /\ nb < Len(pb)
    /\ \E o \in TimelockUnlock(pb, "unlimited", FALSE) :
         /\ pb' = o.chains
         /\ sb' = sb + o.steps
         /\ res' = Res("unlock", "unlimited", FALSE, None, 0, 0, o.ret)
    /\ nb' = nb + 1
    /\ UNCHANGED <<cs, orig, json, inj, phase, pf, nf, sf, ChainVars>>

RunForward ==
    /\ phase = "compare" /\ res = Idle
    /\ TimelockSecret(pb) # None \/ nb = Len(pb)
    /\ TimelockSecret(pf) = None /\ nf < Len(pf)
    /\ \E o \in TimelockUnlock(pf, "unlimited", TRUE) :
         /\ pf' = o.chains
         /\ sf' = sf + o.steps
         /\ res' = Res("unlock", "unlimited", TRUE, None, 0, 0, o.ret)
    /\ nf' = nf + 1
    /\ UNCHANGED <<cs, orig, json, inj, phase, pb, nb, sb, ChainVars>>

Next ==
    \/ Unlock
    \/ MakeLocked
    \/ AddSecret
    \/ Save
    \/ Load
    \/ Fork
    \/ RunBackward
    \/ RunForward
    \/ Return

Spec == Init /\ [][Next]_vars

\* ------------------------------------------------- one chain used on its own
\* a chain solved in one uninterrupted call from a fresh one
Solved(n, iv) ==
    (CHOOSE o \in ChainUnlock(NewChain(n, iv, None), "unlimited", n) : TRUE).c

\* byte strings offered as prev_secret: two secrets, and a 33-byte string
PrevSecrets ==
    {Solved(1, Seed(2)).secret, Solved(1, Seed(3)).secret, Pub(midstate_to_seckey(Seed(2)))}

\* the chain is a fresh one, or a chain of a set that make_locked returned:
\* a later chain, or the first one, which is given its plaintext iv
InitChain ==
    /\ \E n \in 1..MaxChainN :
         \/ ch = NewChain(n, Seed(1), None)
         \/ ch = LockedChain(encrypt_iv(Solved(n, Seed(1)), Solved(1, Seed(2)).secret).c)
         \/ ch = [LockedChain(Solved(n, Seed(1))) EXCEPT !.iv = Seed(1)]
    /\ enc = NoEnc
    /\ run = <<>>
    /\ res = Idle
    /\ cs = <<>> /\ orig = <<>> /\ json = NoJson /\ inj = {} /\ phase = "chain"
    /\ pb = <<>> /\ pf = <<>>
    /\ nb = 0 /\ nf = 0 /\ sb = 0 /\ sf = 0

ChainReady == phase = "chain" /\ res = Idle

ChainUnlockCall ==
    /\ ChainReady
    /\ \E t \in Budgets, j \in 0..(MaxChainN + 1) :
         \E o \in ChainUnlock(ch, t, j) :
            /\ ch' = o.c
            /\ run' = o.batches
            /\ res' = Res("chain.unlock", t, FALSE, None, ch.i, j, o.ret)
    /\ UNCHANGED <<SetVars, enc>>

EncryptIv ==
    /\ ChainReady
    /\ \E prev_secret \in PrevSecrets :
         LET r == encrypt_iv(ch, prev_secret)
         IN  /\ ch' = r.c
             /\ res' = Res("encrypt_iv", "expired", FALSE, prev_secret, 0, 0, r.ret)
             /\ enc' = IF r.ret = "None"
                       THEN [iv |-> ch.iv, prev_secret |-> prev_secret] ELSE enc
    /\ UNCHANGED <<SetVars, run>>

DecryptIv ==
    /\ ChainReady
    /\ \E prev_secret \in PrevSecrets :
         LET r == decrypt_iv(ch, prev_secret)
         IN  /\ ch' = r.c
             /\ res' = Res("decrypt_iv", "expired", FALSE, prev_secret, 0, 0, r.ret)
    /\ UNCHANGED <<SetVars, enc, run>>

\* candidates for the chain: the secret, key and public key its current
\* seed leads to, and those of another seed
ChainCandidates ==
    UNION {{Solved(ch.n, iv).secret, Solved(ch.n, iv).seckey, Pub(Solved(ch.n, iv).seckey)} :
           iv \in {Seed(1), Seed(2)} \cup ({ch.iv} \ {None})}

AddSecretCall ==
    /\ ChainReady
    /\ \E secret \in ChainCandidates :
         LET r == ChainAddSecret(ch, secret)
         IN  /\ ch' = r.c
             /\ res' = Res("chain.add_secret", "expired", FALSE, secret, 0, 0, r.ret)
    /\ UNCHANGED <<SetVars, enc, run>>

AddPubkeySecretCall ==
    /\ ChainReady
    /\ \E pubkey_secret \in ChainCandidates :
         LET r == add_pubkey_secret(ch, pubkey_secret)
         IN  /\ ch' = r.c
             /\ res' = Res("add_pubkey_secret", "expired", FALSE, pubkey_secret, 0, 0, r.ret)
    /\ UNCHANGED <<SetVars, enc, run>>

AddSeckeyCall ==
    /\ ChainReady
    /\ \E seckey \in {s \in ChainCandidates : HasPub(s)} :
         LET r == add_seckey(ch, seckey)
         IN  /\ ch' = r.c
             /\ res' = Res("add_seckey", "expired", FALSE, seckey, 0, 0, r.ret)
    /\ UNCHANGED <<SetVars, enc, run>>

NextChain ==
    \/ ChainUnlockCall
    \/ EncryptIv
    \/ DecryptIv
    \/ AddSecretCall
    \/ AddPubkeySecretCall
    \/ AddSeckeyCall
    \/ Return

SpecChain == InitChain /\ [][NextChain]_vars

\* ------------------------------------------------------------------- claims
CallMade(op) == res = Idle /\ res'.op = op

\* C1: a chain brought to i = n by any sequence of unlock calls (any targets
\* j, any interruptions, any batch sizes) has the midstate, the secret and
\* the hashed_secret of one uninterrupted unlock of a fresh chain with the
\* same seed: the kernel step applied n times to iv.
C1_SameAsUninterrupted ==
    (phase = "chain" /\ ch.i = ch.n /\ ch.iv # None) =>
        LET one == Solved(ch.n, ch.iv)
        IN  /\ ch.midstate = KernelRun(ch.iv, ch.n)
            /\ ch.midstate = one.midstate
            /\ ch.secret = one.secret
            /\ ch.hashed_secret = one.hashed_secret

\* an unlock call that resumed in the middle of the chain reached n
C1_Witness ==
    /\ phase = "chain" /\ res.op = "chain.unlock" /\ res.ret = "True"
    /\ 0 < res.i /\ res.i < ch.n /\ ch.i = ch.n
    /\ ch.secret = Solved(ch.n, ch.iv).secret

\* C5: decrypt_iv(p) after encrypt_iv(p) leaves iv as it was at encrypt_iv;
\* a successful decrypt_iv sets i = 0 and midstate = iv; encrypt_iv fails
\* exactly when iv is absent or the lengths differ, decrypt_iv exactly when
\* encrypted_iv is absent or the lengths differ, and a failed call changes
\* nothing.
C5_EncryptDecrypt ==
    [][ /\ CallMade("encrypt_iv") =>
             /\ res'.ret = "ValueError" <=> (ch.iv = None \/ ch.iv.len # res'.arg.len)
             /\ res'.ret = "ValueError" => ch' = ch
             /\ res'.ret # "ValueError" => res'.ret = "None"
        /\ CallMade("decrypt_iv") =>
             /\ res'.ret = "ValueError" <=>
                    (ch.encrypted_iv = None \/ ch.encrypted_iv.len # res'.arg.len)
             /\ res'.ret = "ValueError" => ch' = ch
             /\ res'.ret # "ValueError" =>
                    /\ res'.ret = "None"
                    /\ ch'.i = 0 /\ ch'.midstate = ch'.iv /\ ch'.iv # None
                    /\ enc.prev_secret = res'.arg => ch'.iv = enc.iv
      ]_vars

\* decrypt_iv with the secret of the last encrypt_iv gave the seed back,
\* after the chain had been stepped
C5_Witness ==
    /\ phase = "chain" /\ res.op = "decrypt_iv" /\ res.ret = "None"
    /\ enc.prev_secret = res.arg /\ ch.iv = enc.iv /\ ch.iv = Seed(1)
    /\ ch.i = 0 /\ ch.midstate = ch.iv /\ ch.secret # None

\* C6: TimelockChain.add_secret raises when hashed_secret is absent; else it
\* returns True and stores the candidate exactly when the candidate's
\* commitment equals hashed_secret, and returns False with no field of the
\* chain changed when it does not.
C6_ChainAddSecret ==
    [][ CallMade("chain.add_secret") =>
          IF ch.hashed_secret = None
          THEN res'.ret = "ValueError" /\ ch' = ch
          ELSE IF secret_to_hashed_secret(res'.arg) = ch.hashed_secret
          THEN res'.ret = "True" /\ ch' = [ch EXCEPT !.secret = res'.arg]
          ELSE res'.ret = "False" /\ ch' = ch
      ]_vars

\* a locked chain that was never stepped accepted its secret
C6_Witness ==
    /\ phase = "chain" /\ res.op = "chain.add_secret" /\ res.ret = "True"
    /\ ch.iv = None /\ ch.i = 0 /\ ch.seckey = None /\ ch.secret = res.arg

Known(chains) == {k \in 1..Len(chains) : chains[k].secret # None}

\* C2: in a set made by make_locked from the solved set orig and then
\* unlocked, every chain after the first that has its seed has the seed of
\* orig, recovered from encrypted_iv with the secret of the chain before
\* it; a chain stepped to n has the secret of orig; every commitment is the
\* one kept from orig; and the terminal secret, once known, is the terminal
\* secret of orig, the one its plaintext seed leads to.
C2_LockedUnlockRecovers ==
    (phase = "run" /\ orig # <<>>) =>
        /\ Len(cs) = Len(orig)
        /\ \A k \in 1..Len(cs) :
             /\ cs[k].hashed_secret = orig[k].hashed_secret
             /\ (k > 1 /\ cs[k].iv # None) =>
                    /\ cs[k].iv = orig[k].iv
                    /\ cs[k].iv = xor_bytes(cs[k].encrypted_iv, cs[k - 1].secret)
                    /\ cs[k - 1].secret = orig[k - 1].secret
             /\ cs[k].i = cs[k].n =>
                    /\ cs[k].secret = orig[k].secret
                    /\ secret_to_hashed_secret(cs[k].secret) = orig[k].hashed_secret
        /\ TimelockSecret(cs) # None =>
             /\ TimelockSecret(cs) = TimelockSecret(orig)
             /\ TimelockSecret(cs) = Solved(orig[Len(orig)].n, orig[Len(orig)].iv).secret

\* a locked set of two or more chains was unlocked chain by chain to the end
C2_Witness ==
    /\ phase = "run" /\ orig # <<>> /\ Len(cs) >= 2
    /\ res.op = "unlock" /\ res.ret = "True"
    /\ \A k \in 1..Len(cs) : cs[k].i = cs[k].n /\ cs[k].iv = orig[k].iv
    /\ TimelockSecret(cs) = TimelockSecret(orig)

\* one call of Timelock.unlock that took the chain set from a to b
UnlockMade(a, b) ==
    LET changed == {k \in 1..Len(a) : b[k] # a[k]}
        solved  == Known(b) \ Known(a)
    IN  /\ res'.ret \in {"True", "False"}
        /\ res'.ret = "True" <=> TimelockSecret(b) # None
        /\ Cardinality(changed) <= 1
        /\ Cardinality(solved) <= 1
        /\ (res'.t = "unlimited" /\ TimelockSecret(a) = None) =>
               /\ Cardinality(solved) = 1
               /\ \A k \in solved : b[k].i = b[k].n
        /\ res'.ret = "False" =>
               \/ res'.t # "unlimited"
               \/ \E k \in solved : k < Len(a)

\* C3 as stated: a call with a budget that never expires returns True; a
\* call returns False only if the budget ran out.
C3_Original ==
    (res.op = "unlock" /\ res.ret = "False") => res.t # "unlimited"

\* C3 as amended: a call returns whether the terminal secret is known; it
\* changes at most one chain and solves at most one; with a budget that
\* never expires and the terminal secret unknown it solves exactly one
\* chain, by stepping it to n; and it returns False only if the budget ran
\* out or the chain it solved is not the terminal one.
C3_OneChainPerCall ==
    [][ CallMade("unlock") =>
          IF phase = "run" THEN UnlockMade(cs, cs')
          ELSE IF nb' # nb THEN UnlockMade(pb, pb')
          ELSE UnlockMade(pf, pf')
      ]_vars

\* a forward-first call with unlimited budget on three chains with all
\* seeds known solved the first chain only and returned False
C3_Witness ==
    /\ phase = "run" /\ orig = <<>> /\ Len(cs) = 3
    /\ res.op = "unlock" /\ res.t = "unlimited" /\ res.ff /\ res.ret = "False"
    /\ Known(cs) = {1} /\ cs[2].i = 0 /\ cs[3].i = 0

\* the set make_locked returns (b) for the set it was called on (a)
LockedFrom(a, b) ==
    /\ res'.ret = "locked"
    /\ Len(b) = Len(a)
    /\ b[1].iv = a[1].iv
    /\ \A k \in 1..Len(a) :
         /\ k > 1 => /\ b[k].iv = None
                     /\ b[k].encrypted_iv = xor_bytes(a[k].iv, a[k - 1].secret)
         /\ b[k].n = a[k].n
         /\ b[k].algorithm = a[k].algorithm
         /\ b[k].hashed_secret = a[k].hashed_secret
         /\ b[k].i = 0 /\ b[k].seckey = None /\ b[k].secret = None

MatchesNone(chains, secret) ==
    \A k \in 1..Len(chains) :
        /\ chains[k].hashed_secret # secret_to_hashed_secret(secret)
        /\ chains[k].hashed_secret # secret_to_hashed_secret(sha256(secret))
        /\ HasPub(secret) =>
               chains[k].hashed_secret # secret_to_hashed_secret(seckey_to_secret(secret))

\* C7 as stated: on a locked set, add_secret with the true secret of a chain
\* returns True and no later unlock call changes i or midstate of that
\* chain; add_secret with a candidate that matches no chain returns False
\* and changes nothing.
C7_Original ==
    [][ /\ (CallMade("add_secret") /\ orig # <<>>) =>
             /\ (\E k \in 1..Len(orig) : res'.arg = orig[k].secret) => res'.ret = "True"
             /\ MatchesNone(cs, res'.arg) => (res'.ret = "False" /\ cs' = cs)
        /\ (CallMade("unlock") /\ phase = "run") =>
             \A k \in inj : cs'[k].i = cs[k].i /\ cs'[k].midstate = cs[k].midstate
      ]_vars

\* C8: copies of one chain set unlocked backward-first and forward-first
\* with unlimited budget, call after call, both come to know the terminal
\* secret (no call raises or hangs, and as many calls as there are chains
\* suffice), and the two terminal secrets are equal.
C8_PoliciesAgree ==
    phase = "compare" =>
        /\ res.op = "unlock" => res.ret \in {"True", "False"}
        /\ nb = Len(pb) => TimelockSecret(pb) # None
        /\ nf = Len(pf) => TimelockSecret(pf) # None
        /\ (TimelockSecret(pb) # None /\ TimelockSecret(pf) # None) =>
               TimelockSecret(pb) = TimelockSecret(pf)

\* both copies of a locked set of three chains reached the terminal secret,
\* the forward-first one in three calls
C8_Witness ==
    /\ phase = "compare" /\ orig # <<>> /\ Len(pb) = 3
    /\ nb = 3 /\ nf = 3
    /\ TimelockSecret(pb) # None /\ TimelockSecret(pb) = TimelockSecret(pf)

\* C9: from the same set, the hash steps made until the terminal secret is
\* known are no more under the backward-first policy than under the
\* forward-first policy.
C9_BackwardNoMoreSteps ==
    (phase = "compare" /\ TimelockSecret(pb) # None /\ TimelockSecret(pf) # None) =>
        sb <= sf

\* the secret of the middle chain of a fresh locked set of three was
\* injected: backward-first stepped the last chain only, forward-first
\* also the first
C9_Witness ==
    /\ phase = "compare" /\ orig # <<>> /\ Len(pb) = 3 /\ inj = {2}
    /\ TimelockSecret(pb) # None /\ TimelockSecret(pf) # None
    /\ pb[1].i = 0 /\ pb[2].i = 0 /\ pf[2].i = 0 /\ pf[1].i = pf[1].n
    /\ sb = pb[3].n /\ sf = 2 * pb[3].n

RoundTrip(chains) ==
    /\ from_json(to_json(chains)) = chains
    /\ to_json(from_json(to_json(chains))) = to_json(chains)

\* C10: decoding the record of any reachable chain set gives a chain set
\* equal to it in every field of every chain, and encoding that again gives
\* the same record.
C10_JsonRoundTrip ==
    /\ phase = "run" => RoundTrip(cs)
    /\ phase = "compare" => RoundTrip(pb) /\ RoundTrip(pf)
    /\ json # NoJson =>
           /\ json = to_json(cs)
           /\ from_json(json) = cs
           /\ to_json(from_json(json)) = json

\* the record of a locked set with a chain interrupted in mid-computation
\* and an injected secret is waiting to be read back
C10_Witness ==
    /\ json # NoJson /\ orig # <<>> /\ from_json(json) = cs
    /\ \E k \in 1..Len(cs) : 0 < cs[k].i /\ cs[k].i < cs[k].n /\ cs[k].midstate # cs[k].iv
    /\ \E k \in 1..Len(cs) : cs[k].iv = None /\ cs[k].secret # None

\* the secrets a candidate stands for on the three paths of add_secret, in
\* the order they are tried: raw, public-key-derived, private-key-derived
Derived(secret) ==
    <<secret, sha256(secret)>> \o (IF HasPub(secret) THEN <<seckey_to_secret(secret)>> ELSE <<>>)

Accepting(chains, secret) ==
    {k \in 1..Len(chains) :
        \E p \in 1..Len(Derived(secret)) :
            secret_to_hashed_secret(Derived(secret)[p]) = chains[k].hashed_secret}

\* C11 as stated: on a set whose chains all have a commitment, add_secret
\* with a candidate of any of the three kinds returns True and sets only the
\* secret of the first chain that accepts it, to the secret derived on the
\* first accepting path; when no chain accepts it, it returns False and
\* changes nothing.
C11_Original ==
    [][ (CallMade("add_secret") /\ \A k \in 1..Len(cs) : cs[k].hashed_secret # None) =>
          LET secret == res'.arg
              acc    == Accepting(cs, secret)
          IN  IF acc = {}
              THEN res'.ret = "False" /\ cs' = cs
              ELSE LET k == CHOOSE h \in acc : \A g \in acc : h <= g
                       p == CHOOSE q \in 1..Len(Derived(secret)) :
                              /\ secret_to_hashed_secret(Derived(secret)[q]) = cs[k].hashed_secret
                              /\ \A r \in 1..(q - 1) :
                                   secret_to_hashed_secret(Derived(secret)[r]) # cs[k].hashed_secret
                   IN  /\ res'.ret = "True"
                       /\ cs' = [cs EXCEPT ![k].secret = Derived(secret)[p]]
      ]_vars

\* C12 as stated: once the hashed_secret of a chain is set, no operation on
\* the chain changes its value.
C12_Original ==
    [][ (phase = "chain" /\ ch.hashed_secret # None) =>
            ch'.hashed_secret = ch.hashed_secret ]_vars

\* C13 as stated: TimelockChain.unlock(t, j) raises when j > n and when no
\* midstate is available (i = 0 with iv absent, or midstate absent), and a
\* call that raises leaves i, midstate, seckey, secret and hashed_secret as
\* they were.
C13_Original ==
    [][ CallMade("chain.unlock") =>
          /\ (res'.j > ch.n \/ (ch.i = 0 /\ ch.iv = None) \/ (ch.i # 0 /\ ch.midstate = None))
                 => res'.ret = "ValueError"
          /\ res'.ret \notin {"True", "False"} =>
                 /\ ch'.i = ch.i /\ ch'.midstate = ch.midstate
                 /\ ch'.seckey = ch.seckey /\ ch'.secret = ch.secret
                 /\ ch'.hashed_secret = ch.hashed_secret
                 /\ run' = <<>>
      ]_vars

\* the chains a pass of Timelock.unlock may step: secret unknown, and iv
\* known or decryptable with the secret of the chain before
Eligible(chains) ==
    {k \in 1..Len(chains) :
        /\ chains[k].secret = None
        /\ chains[k].iv # None \/ (k > 1 /\ chains[k - 1].secret # None)}

\* the first of a non-empty set of chains in traversal order
FirstOf(ks, from_first_chain) ==
    CHOOSE k \in ks : \A h \in ks : IF from_first_chain THEN k <= h ELSE k >= h

\* one call of Timelock.unlock took the set from a to b: no chain but the
\* first eligible one has changed; its iv is as before or, if it was
\* absent, encrypted_iv XOR the secret of the chain before; and when the
\* budget never expires that chain was stepped to n
PassSelects(a, b) ==
    LET changed == {k \in 1..Len(a) : b[k] # a[k]}
        k == FirstOf(Eligible(a), res'.ff)
    IN  /\ (TimelockSecret(a) # None \/ Eligible(a) = {}) => changed = {}
        /\ (TimelockSecret(a) = None /\ Eligible(a) # {}) =>
              /\ changed \subseteq {k}
              /\ b[k].iv = IF a[k].iv # None THEN a[k].iv
                           ELSE IF k \in changed
                                THEN xor_bytes(a[k].encrypted_iv, a[k - 1].secret)
                                ELSE None
              /\ res'.t = "unlimited" =>
                    (k \in changed /\ b[k].i = b[k].n /\ b[k].secret # None)

\* C14: the one chain a call of Timelock.unlock steps is the first chain in
\* traversal order (highest index backward-first, lowest forward-first)
\* whose secret is unknown and whose iv is known or can be decrypted because
\* the secret of the chain before is known; its iv is decrypted with the
\* secret of the chain before only; every other chain is left with all its
\* fields unchanged.
C14_FirstEligible ==
    [][ CallMade("unlock") =>
          IF phase = "run" THEN PassSelects(cs, cs')
          ELSE IF nb' # nb THEN PassSelects(pb, pb')
          ELSE PassSelects(pf, pf')
      ]_vars

\* in a locked set of three with the first secret injected, a backward-first
\* call skipped the last chain, whose predecessor is unsolved, and the first,
\* whose secret is known, and decrypted and solved the middle one
C14_Witness ==
    /\ phase = "run" /\ orig # <<>> /\ Len(cs) = 3 /\ inj = {1}
    /\ res.op = "unlock" /\ ~res.ff
    /\ cs[1].i = 0 /\ cs[1].secret # None
    /\ cs[2].i = cs[2].n /\ cs[2].iv = xor_bytes(cs[2].encrypted_iv, cs[1].secret)
    /\ cs[3] = LockedChain(orig[3])

\* C15: every chain has 0 <= i <= n; in an unlock(t, j) call the assertion
\* i <= n does not fail, the first kernel invocation starts where the chain
\* was, with batch size 1, each following one starts where the one before
\* ended, with a batch size limit the same or doubled and a batch at most
\* twice the one before, every invocation advances i by m with
\* 1 <= m <= j - i, and i ends where the last invocation left it, not past j.
C15_IndexInRange ==
    phase = "chain" =>
        /\ 0 <= ch.i /\ ch.i <= ch.n
        /\ res.op = "chain.unlock" =>
             /\ res.ret # "AssertionError"
             /\ run = <<>> => ch.i = res.i
             /\ run # <<>> =>
                    /\ res.ret \in {"True", "False"}
                    /\ run[1].i = res.i /\ run[1].max_m = 1 /\ run[1].m = 1
                    /\ ch.i = run[Len(run)].i + run[Len(run)].m
                    /\ ch.i <= res.j
             /\ \A p \in 1..Len(run) :
                    /\ 1 <= run[p].m /\ run[p].m <= res.j - run[p].i
                    /\ run[p].m <= run[p].max_m
                    /\ p > 1 =>
                         /\ run[p].i = run[p - 1].i + run[p - 1].m
                         /\ run[p].max_m \in {run[p - 1].max_m, 2 * run[p - 1].max_m}
                         /\ run[p].m <= 2 * run[p - 1].m

\* one call ran the kernel with batches of 1, then 2 after doubling, then 1,
\* capped by the distance to j = n = 4
C15_Witness ==
    /\ phase = "chain" /\ res.op = "chain.unlock" /\ res.ret = "True"
    /\ res.i = 0 /\ res.j = 4 /\ ch.n = 4 /\ ch.i = 4
    /\ Len(run) = 3
    /\ run[1].m = 1 /\ run[2].m = 2 /\ run[2].max_m = 2
    /\ run[3].m = 1 /\ run[3].max_m = 4

\* C16 as stated: in every state, a chain that has its iv has a midstate,
\* the kernel step applied i times to iv.
C16_Original ==
    phase = "run" =>
        \A k \in 1..Len(cs) :
            cs[k].iv # None => cs[k].midstate = KernelRun(cs[k].iv, cs[k].i)

\* the first chain of a set has its iv, the one of the solved set if the
\* set was made by make_locked
FirstIvPresent(chains) ==
    chains # <<>> =>
        /\ chains[1].iv # None
        /\ orig # <<>> => chains[1].iv = orig[1].iv

\* C17: in every set built by the constructor or returned by make_locked,
\* after any unlock and add_secret calls (and reloads), the first chain has
\* its iv, so Timelock.unlock never decrypts it, and no call fails an
\* assertion.
C17_FirstChainIv ==
    /\ phase = "run" => FirstIvPresent(cs)
    /\ phase = "compare" => FirstIvPresent(pb) /\ FirstIvPresent(pf)
    /\ res.ret # "AssertionError"

\* in a locked set of two or more chains whose second secret was injected,
\* a backward-first call came down to the first chain and solved it from
\* its plaintext iv
C17_Witness ==
    /\ phase = "run" /\ orig # <<>> /\ Len(cs) >= 2 /\ 2 \in inj
    /\ res.op = "unlock" /\ ~res.ff
    /\ cs[1].iv = orig[1].iv /\ cs[1].encrypted_iv = None
    /\ cs[1].i = cs[1].n /\ cs[1].secret = orig[1].secret

\* the source set of the last make_locked call, as the call left it
SourceAfter == IF res'.ret = "locked" THEN orig' ELSE cs'

\* C18 as stated: make_locked raises whenever the secret of some chain is
\* unknown, and whether it raises or not it leaves i and midstate of every
\* chain of the set as they were.
C18_Original ==
    [][ CallMade("make_locked") =>
          /\ Known(cs) # 1..Len(cs) => res'.ret = "ValueError"
          /\ \A k \in 1..Len(cs) :
                /\ SourceAfter[k].i = cs[k].i
                /\ SourceAfter[k].midstate = cs[k].midstate
      ]_vars

\* a chain's secret, when present, is committed to by its hashed_secret, and
\* its seckey, when present, is the key of its secret
Committed(c) ==
    /\ c.secret # None =>
          c.hashed_secret # None /\ c.hashed_secret = secret_to_hashed_secret(c.secret)
    /\ c.seckey # None =>
          c.secret # None /\ c.secret = seckey_to_secret(c.seckey)

\* C19: in every state, every chain with a secret has a hashed_secret equal
\* to the commitment of that secret, and every chain with a seckey has the
\* secret derived from that seckey.
C19_SecretCommitted ==
    /\ phase = "chain" => Committed(ch)
    /\ \A k \in 1..Len(cs) : Committed(cs[k])
    /\ \A k \in 1..Len(orig) : Committed(orig[k])
    /\ \A k \in 1..Len(pb) : Committed(pb[k]) /\ Committed(pf[k])

\* a chain with a commitment was decrypted with a secret that is not the one
\* it was encrypted with and stepped to the end: secret, seckey and
\* hashed_secret are those of the iv it was stepped from
C19_Witness ==
    /\ phase = "chain" /\ res.op = "chain.unlock" /\ res.ret = "True"
    /\ ch.encrypted_iv # None /\ ch.iv # None /\ ch.iv # Seed(1)
    /\ ch.i = ch.n /\ ch.seckey = midstate_to_seckey(ch.midstate)
    /\ ch.secret = Solved(ch.n, ch.iv).secret
    /\ ch.hashed_secret = secret_to_hashed_secret(ch.secret)
    /\ ch.hashed_secret # Solved(ch.n, Seed(1)).hashed_secret

\* C20 as stated: when make_locked raises because the secret of some chain
\* is unknown, no field of any chain of the set has changed.
C20_Original ==
    [][ (CallMade("make_locked") /\ Known(cs) # 1..Len(cs)) =>
            (res'.ret = "ValueError" /\ cs' = cs) ]_vars

====
